---- MODULE Spec2Model ----
(***************************************************************************)
(* Model of GreatAIFinanceDashboard.py: the Streamlit dashboard that lists, *)
(* adds, updates, deletes and imports transactions through the API Gateway  *)
(* routes and aggregates the listed rows in its Overview and Reports tabs.  *)
(*                                                                          *)
(* Amounts are integers (minor units): the sums are exact.  A date string   *)
(* "YYYY-MM-DD" is the sequence <<YYYY, M1, M2, D1, D2>> of its year and    *)
(* its month and day digits, compared as Python compares strings; a parsed  *)
(* date is the triple <<year, month, day>>.  The store keeps dates in the   *)
(* ISO form the dashboard itself writes (str(date)).                        *)
(*                                                                          *)
(* A step is one run of the script for one widget event: the run lists the  *)
(* store for tab 1 and for View All, then executes the block of the widget  *)
(* that triggered it.  The list route is taken to answer with the rows; the *)
(* write routes answer with JSON (with or without a "message") or with a    *)
(* body that is not JSON.  The store itself is an external service: its     *)
(* effects are modelled from its contract, one row per request.             *)
(*                                                                          *)
(* Spec       the Transactions tab (add, update, delete, CSV import)        *)
(* SpecAgg    tabs 1 and 3 over any content of the store                    *)
(* SpecInvoke invoke_lambda_http over any function name                     *)
(***************************************************************************)
EXTENDS Integers, Sequences, FiniteSets, TLC

VARIABLES
    store,      \* the rows held by the transaction store behind the API
    invoked,    \* the invoke_lambda calls of the latest run, in order
    http,       \* the HTTP requests sent in the latest run, in order
    form,       \* the widget values of the form submitted in the latest run
    res,        \* what the Transactions tab's write call returned, if any
    msg,        \* what the Transactions tab displayed for the submitted form
    overview,   \* what tab 1 (Overview) rendered in the latest run
    report      \* what tab 3 (Reports) rendered in the latest run

vars == <<store, invoked, http, form, res, msg, overview, report>>

----------------------------------------------------------------------------
(* Bounds and input domains *)

MaxAmount == 1
MaxCalls == 2

Amounts == (0 - 1) .. MaxAmount
Types == {"Income", "Expense", "Transfer"}
Null == "<null>"
Categories == {"Rent", "rent", "", Null}
Dates == {<<2025, 3, 5>>, <<2025, 3, 10>>, <<2024, 12, 1>>}
TxnIds == <<"t1", "t2">>
MaxRows == Len(TxnIds)

----------------------------------------------------------------------------
(* Dates *)

MonthNames ==
    <<"January", "February", "March", "April", "May", "June",
      "July", "August", "September", "October", "November", "December">>

Years == {2025, 2024, 2023}

DateStr(d) == <<d[1], d[2] \div 10, d[2] % 10, d[3] \div 10, d[3] % 10>>

ToDatetime(s) == <<s[1], s[2] * 10 + s[3], s[4] * 10 + s[5]>>

StrLess(a, b) ==
    \/ \E i \in 1..Len(a) :
          /\ i <= Len(b)
          /\ \A j \in 1..(i - 1) : a[j] = b[j]
          /\ a[i] < b[i]
    \/ /\ Len(a) < Len(b)
       /\ \A j \in 1..Len(a) : a[j] = b[j]

DatetimeLess(x, y) ==
    \/ x[1] < y[1]
    \/ x[1] = y[1] /\ x[2] < y[2]
    \/ x[1] = y[1] /\ x[2] = y[2] /\ x[3] < y[3]

----------------------------------------------------------------------------
(* pandas: boolean selection, Series.sum, groupby(...).sum *)

RECURSIVE SumAmount(_)
SumAmount(df) ==
    IF df = <<>> THEN 0 ELSE Head(df).Amount + SumAmount(Tail(df))

WhereTypeUnfiltered(df, t) == df

WhereTypeNonNegative(df, t) == SelectSeq(df, LAMBDA r : r.Type = t /\ r.Amount >= 0)

WhereType(df, t) == SelectSeq(df, LAMBDA r : r.Type = t)

GroupBySum(df, col) ==
    LET keys == {df[i][col] : i \in 1..Len(df)} \ {Null}
    IN  [k \in keys |-> SumAmount(SelectSeq(df, LAMBDA r : r[col] = k))]

RECURSIVE SortedKeys(_)
SortedKeys(S) ==
    IF S = {} THEN <<>>
    ELSE LET m == CHOOSE x \in S : \A y \in S \ {x} : StrLess(x, y)
         IN  <<m>> \o SortedKeys(S \ {m})

GroupByDateSumDescending(df) ==
    LET keys == SortedKeys({df[i].Date : i \in 1..Len(df)})
    IN  [n \in 1..Len(keys) |->
            <<keys[Len(keys) + 1 - n],
              SumAmount(SelectSeq(df, LAMBDA r : r.Date = keys[Len(keys) + 1 - n]))>>]

GroupByDateSum(df) ==
    LET keys == SortedKeys({df[i].Date : i \in 1..Len(df)})
    IN  [n \in 1..Len(keys) |->
            <<keys[n], SumAmount(SelectSeq(df, LAMBDA r : r.Date = keys[n]))>>]

----------------------------------------------------------------------------
(* API Gateway: invoke_lambda = invoke_lambda_http *)

BASE_URL == "https://iabu6nhilc.execute-api.ap-southeast-5.amazonaws.com/Hackathon"

EmptyDict == [k \in {} |-> ""]

routesCopiedUpdate(func_name) ==
    CASE func_name = "ListTransactionsLambda" -> <<"GET", "/transactions">>
      [] func_name = "AddTransactionLambda" -> <<"POST", "/transactions">>
      [] func_name = "UpdateTransactionLambda" -> <<"POST", "/transactions">>
      [] func_name = "DeleteTransactionLambda" -> <<"DELETE", "/transactions">>
      [] func_name = "CsvImportLambda" -> <<"POST", "/csvimport">>
      [] func_name = "GenerateReportLambda" -> <<"POST", "/report">>
      [] OTHER -> <<"POST", "/unknown">>

routes(func_name) ==
    CASE func_name = "ListTransactionsLambda" -> <<"GET", "/transactions">>
      [] func_name = "AddTransactionLambda" -> <<"POST", "/transactions">>
      [] func_name = "UpdateTransactionLambda" -> <<"PUT", "/transactions">>
      [] func_name = "DeleteTransactionLambda" -> <<"DELETE", "/transactions">>
      [] func_name = "CsvImportLambda" -> <<"POST", "/csvimport">>
      [] func_name = "GenerateReportLambda" -> <<"POST", "/report">>
      [] OTHER -> <<"POST", "/unknown">>

\* The requests one call of invoke_lambda_http sends, in order.
send_request(func_name, payload) ==
    LET method == routes(func_name)[1]
        url == <<BASE_URL, routes(func_name)[2]>>
    IN  IF method = "GET"
        THEN <<[verb |-> "GET", url |-> url, carrier |-> "params", payload |-> payload]>>
        ELSE IF method = "PUT"
        THEN <<[verb |-> "PUT", url |-> url, carrier |-> "json", payload |-> payload]>>
        ELSE IF method = "DELETE"
        THEN <<[verb |-> "DELETE", url |-> url, carrier |-> "json", payload |-> payload]>>
        ELSE <<[verb |-> "POST", url |-> url, carrier |-> "json", payload |-> payload]>>

\* What invoke_lambda_http returns for the response r.
response_json(r) ==
    IF r.is_json
    THEN (IF r.has_message THEN [message |-> r.message] ELSE EmptyDict)
    ELSE [error |-> r.text]

Call(func_name, payload) == [func |-> func_name, payload |-> payload]

RECURSIVE SendAll(_)
SendAll(calls) ==
    IF calls = <<>> THEN <<>>
    ELSE send_request(Head(calls).func, Head(calls).payload) \o SendAll(Tail(calls))

----------------------------------------------------------------------------
(* The transaction store's list route *)

ListTransactions(rows, params) ==
    IF DOMAIN params = {} THEN rows
    ELSE SelectSeq(rows, LAMBDA r :
            /\ ToDatetime(r.Date)[1] = params.year
            /\ MonthNames[ToDatetime(r.Date)[2]] = params.month)

----------------------------------------------------------------------------
(* Tab 1: Overview *)

LatestDate(df) ==
    LET ds == {ToDatetime(df[i].Date) : i \in 1..Len(df)}
    IN  CHOOSE x \in ds : \A y \in ds \ {x} : DatetimeLess(y, x)

OverviewOf(txns) ==
    IF txns = <<>>
    THEN [status |-> "warning", text |-> "No transactions available.",
          heading |-> <<>>, rows |-> <<>>, summary |-> <<>>]
    ELSE [status |-> "shown", text |-> "",
          heading |-> <<[month |-> MonthNames[LatestDate(txns)[2]],
                         year |-> LatestDate(txns)[1]]>>,
          rows |-> txns,
          summary |-> <<[byType |-> GroupBySum(txns, "Type"),
                         byCategory |-> GroupBySum(txns, "Category"),
                         revenue |-> SumAmount(WhereType(txns, "Income")),
                         expenses |-> SumAmount(WhereType(txns, "Expense"))]>>]

----------------------------------------------------------------------------
(* Tab 3: Reports *)

ExpDataAllKinds(df) ==
    LET expenses == WhereType(df, "Expense")
    IN  IF expenses = <<>> THEN <<>>
        ELSE <<GroupBySum(df, "Category")>>

ExpData(df) ==
    LET expenses == WhereType(df, "Expense")
    IN  IF expenses = <<>> THEN <<>>
        ELSE <<GroupBySum(expenses, "Category")>>

Summary(df) ==
    [byType |-> GroupBySum(df, "Type"),
     exp_data |-> ExpData(df),
     daily |-> GroupByDateSum(df),
     revenue |-> SumAmount(WhereType(df, "Income")),
     expenses_total |-> SumAmount(WhereType(df, "Expense")),
     net |-> SumAmount(WhereType(df, "Income")) - SumAmount(WhereType(df, "Expense"))]

ReportOfZeroFilled(df, month, year) ==
    [status |-> "shown", text |-> "",
     heading |-> [month |-> month, year |-> year],
     res |-> df, summary |-> <<Summary(df)>>]

ReportOf(df, month, year) ==
    IF df = <<>>
    THEN [status |-> "warning", text |-> "No transactions for this period.",
          heading |-> [month |-> month, year |-> year],
          res |-> df, summary |-> <<>>]
    ELSE [status |-> "shown", text |-> "",
          heading |-> [month |-> month, year |-> year],
          res |-> df, summary |-> <<Summary(df)>>]

NoReport ==
    [status |-> "idle", text |-> "", heading |-> [month |-> "", year |-> 0],
     res |-> <<>>, summary |-> <<>>]

NoOverview ==
    [status |-> "idle", text |-> "", heading |-> <<>>, rows |-> <<>>,
     summary |-> <<>>]

----------------------------------------------------------------------------
(* The transaction store's write routes (external service) *)

UsedIds(rows) == {rows[i].TransactionID : i \in 1..Len(rows)}

HasRoom(rows, ids) == \E i \in 1..Len(ids) : ids[i] \notin UsedIds(rows)

FreshId(rows, ids) ==
    ids[CHOOSE i \in 1..Len(ids) :
            /\ ids[i] \notin UsedIds(rows)
            /\ \A j \in 1..(i - 1) : ids[j] \in UsedIds(rows)]

StoreAdd(rows, p, id) ==
    Append(rows, [TransactionID |-> id, Date |-> p.date,
                  Description |-> p.description, Amount |-> p.amount,
                  Type |-> p.type, Category |-> p.category])

StoreImport(rows, t, id) ==
    Append(rows, [TransactionID |-> id, Date |-> t.Date,
                  Description |-> t.Description, Amount |-> t.Amount,
                  Type |-> t.Type, Category |-> t.Category])

StoreUpdate(rows, id, updates) ==
    [i \in 1..Len(rows) |->
        IF rows[i].TransactionID = id
        THEN [f \in DOMAIN rows[i] |->
                IF f \in DOMAIN updates THEN updates[f] ELSE rows[i][f]]
        ELSE rows[i]]

StoreDelete(rows, id) == SelectSeq(rows, LAMBDA r : r.TransactionID # id)

Replies ==
    {[is_json |-> TRUE, has_message |-> TRUE, message |-> "Done.", text |-> ""],
     [is_json |-> TRUE, has_message |-> FALSE, message |-> "", text |-> ""],
     [is_json |-> FALSE, has_message |-> FALSE, message |-> "",
      text |-> "Internal Server Error"]}

----------------------------------------------------------------------------
(* Tab 2: Transactions -- what the user can enter *)

UiDates == {<<2025, 3, 5>>, <<2024, 12, 1>>}
Descriptions == {"a", "b"}
UiCategories == {"", "Rent"}
TypeOptions == {"Income", "Expense"}
UiAmounts == {0 - 1, 1}
AddAmounts == {a \in UiAmounts : a >= 0}
TypedIds == {"t1", "t9"}
UiIds == <<"t1">>

NoFile == [name |-> "", bytes |-> ""]
Receipts == {NoFile, [name |-> "r.png", bytes |-> "PNG"]}

SeedRow ==
    [TransactionID |-> "t0", Date |-> DateStr(<<2025, 3, 10>>),
     Description |-> "a", Amount |-> 1, Type |-> "Income", Category |-> "rent"]

CsvRows ==
    {[Date |-> DateStr(<<2025, 3, 5>>), Description |-> "a", Amount |-> a,
      Type |-> t, Category |-> "Rent"] : a \in {0 - 1, 1}, t \in {"Expense", "Transfer"}}

NoForm ==
    [tab |-> "", txn_id |-> "", date |-> <<>>, desc |-> "", amt |-> 0,
     ttype |-> "", cat |-> ""]

NoMsg == [level |-> "", text |-> <<>>]

Message(r, default) == IF "message" \in DOMAIN r THEN <<r.message>> ELSE default

AddPayload(date, desc, amt, ttype, cat, receipt) ==
    LET payload == [date |-> DateStr(date), description |-> desc, amount |-> amt,
                    type |-> ttype, category |-> cat]
    IN  IF receipt # NoFile
        THEN [k \in DOMAIN payload \cup {"receipt_name", "receipt_bytes"} |->
                 IF k = "receipt_name" THEN receipt.name
                 ELSE IF k = "receipt_bytes" THEN receipt.bytes
                 ELSE payload[k]]
        ELSE payload

UpdatesAlwaysType(date, desc, amt, ttype, cat, txn) ==
    LET changed ==
            (IF DateStr(date) # txn.Date THEN {"Date"} ELSE {})
            \cup (IF desc # txn.Description THEN {"Description"} ELSE {})
            \cup (IF amt # txn.Amount THEN {"Amount"} ELSE {})
            \cup {"Type"}
            \cup (IF cat # txn.Category THEN {"Category"} ELSE {})
    IN  [f \in changed |->
            CASE f = "Date" -> DateStr(date)
              [] f = "Description" -> desc
              [] f = "Amount" -> amt
              [] f = "Type" -> ttype
              [] f = "Category" -> cat]

Updates(date, desc, amt, ttype, cat, txn) ==
    LET changed ==
            (IF DateStr(date) # txn.Date THEN {"Date"} ELSE {})
            \cup (IF desc # txn.Description THEN {"Description"} ELSE {})
            \cup (IF amt # txn.Amount THEN {"Amount"} ELSE {})
            \cup (IF ttype # txn.Type THEN {"Type"} ELSE {})
            \cup (IF cat # txn.Category THEN {"Category"} ELSE {})
    IN  [f \in changed |->
            CASE f = "Date" -> DateStr(date)
              [] f = "Description" -> desc
              [] f = "Amount" -> amt
              [] f = "Type" -> ttype
              [] f = "Category" -> cat]

\* df[df["TransactionID"] == txn_id].iloc[0]
FirstWithId(df, txn_id) ==
    df[CHOOSE i \in 1..Len(df) :
          /\ df[i].TransactionID = txn_id
          /\ \A j \in 1..(i - 1) : df[j].TransactionID # txn_id]

----------------------------------------------------------------------------
(* One run of the script: tab 1 and the View All sub-tab list the store,   *)
(* then the block of the widget that triggered the run executes.           *)

HeadCalls ==
    <<Call("ListTransactionsLambda", EmptyDict),
      Call("ListTransactionsLambda", EmptyDict)>>

Head1 ==
    /\ overview' = OverviewOf(ListTransactions(store, EmptyDict))
    /\ http' = SendAll(invoked')

RunScript ==
    /\ invoked' = HeadCalls
    /\ Head1
    /\ form' = NoForm
    /\ res' = EmptyDict
    /\ msg' = NoMsg
    /\ report' = NoReport
    /\ UNCHANGED store

SubmitAdd ==
    \E date \in UiDates, desc \in Descriptions, amt \in AddAmounts,
       ttype \in TypeOptions, cat \in UiCategories, receipt \in Receipts,
       r \in Replies :
        LET payload == AddPayload(date, desc, amt, ttype, cat, receipt)
        IN  /\ HasRoom(store, UiIds)
            /\ form' = [tab |-> "add", txn_id |-> "", date |-> date, desc |-> desc,
                        amt |-> amt, ttype |-> ttype, cat |-> cat]
            /\ invoked' = HeadCalls \o <<Call("AddTransactionLambda", payload)>>
            /\ Head1
            /\ res' = response_json(r)
            /\ msg' = [level |-> "success",
                       text |-> Message(res', <<"Transaction added.">>)]
            /\ store' = IF r.is_json
                        THEN StoreAdd(store, payload, FreshId(store, UiIds))
                        ELSE store
            /\ report' = NoReport

UpdateNotFound ==
    \E txn_id \in TypedIds :
        LET df == ListTransactions(store, EmptyDict)
        IN  /\ ~(df # <<>> /\ txn_id \in UsedIds(df))
            /\ form' = [NoForm EXCEPT !.tab = "update", !.txn_id = txn_id]
            /\ invoked' = HeadCalls \o <<Call("ListTransactionsLambda", EmptyDict)>>
            /\ Head1
            /\ res' = EmptyDict
            /\ msg' = [level |-> "warning", text |-> <<"Transaction ID not found.">>]
            /\ report' = NoReport
            /\ UNCHANGED store

SubmitUpdate ==
    \E txn_id \in TypedIds, date \in UiDates, desc \in Descriptions,
       amt \in UiAmounts, ttype \in TypeOptions, cat \in UiCategories :
        LET df == ListTransactions(store, EmptyDict)
        IN  /\ df # <<>> /\ txn_id \in UsedIds(df)
            /\ form' = [tab |-> "update", txn_id |-> txn_id, date |-> date,
                        desc |-> desc, amt |-> amt, ttype |-> ttype, cat |-> cat]
            /\ report' = NoReport
            /\ LET updates == Updates(date, desc, amt, ttype, cat, FirstWithId(df, txn_id))
               IN  IF DOMAIN updates # {}
                   THEN \E r \in Replies :
                          /\ invoked' = HeadCalls
                                \o <<Call("ListTransactionsLambda", EmptyDict),
                                     Call("UpdateTransactionLambda",
                                          [transaction_id |-> txn_id,
                                           updates |-> updates])>>
                          /\ Head1
                          /\ res' = response_json(r)
                          /\ msg' = [level |-> "success",
                                     text |-> Message(res', <<"Transaction updated.">>)]
                          /\ store' = IF r.is_json
                                      THEN StoreUpdate(store, txn_id, updates)
                                      ELSE store
                   ELSE /\ invoked' = HeadCalls
                                \o <<Call("ListTransactionsLambda", EmptyDict)>>
                        /\ Head1
                        /\ res' = EmptyDict
                        /\ msg' = [level |-> "info", text |-> <<"No changes made.">>]
                        /\ UNCHANGED store

ClickDelete ==
    \E del_id \in TypedIds \cup {""}, r \in Replies :
        /\ form' = [NoForm EXCEPT !.tab = "delete", !.txn_id = del_id]
        /\ invoked' = HeadCalls
              \o <<Call("DeleteTransactionLambda", [transaction_id |-> del_id])>>
        /\ Head1
        /\ res' = response_json(r)
        /\ msg' = [level |-> "warning",
                   text |-> Message(res', <<"Transaction ", del_id, " deleted.">>)]
        /\ store' = IF r.is_json THEN StoreDelete(store, del_id) ELSE store
        /\ report' = NoReport

UploadCsv ==
    \E row \in CsvRows, r \in Replies :
        /\ HasRoom(store, UiIds)
        /\ form' = [NoForm EXCEPT !.tab = "csv"]
        /\ invoked' = HeadCalls
              \o <<Call("CsvImportLambda", [transactions |-> <<row>>])>>
        /\ Head1
        /\ res' = response_json(r)
        /\ msg' = [level |-> "success", text |-> Message(res', <<"CSV imported.">>)]
        /\ store' = IF r.is_json
                    THEN StoreImport(store, row, FreshId(store, UiIds))
                    ELSE store
        /\ report' = NoReport

Init ==
    /\ store = <<SeedRow>>
    /\ invoked = <<>>
    /\ http = <<>>
    /\ form = NoForm
    /\ res = EmptyDict
    /\ msg = NoMsg
    /\ overview = NoOverview
    /\ report = NoReport

Next ==
    \/ RunScript
    \/ SubmitAdd
    \/ UpdateNotFound
    \/ SubmitUpdate
    \/ ClickDelete
    \/ UploadCsv

Spec == Init /\ [][Next]_vars

----------------------------------------------------------------------------
(* Aggregation: the store holds any rows; the script runs over them *)

Row(i, d, a, t, c) ==
    [TransactionID |-> TxnIds[i], Date |-> DateStr(d), Description |-> "a",
     Amount |-> a, Type |-> t, Category |-> c]

RowFields == Dates \X Amounts \X Types \X Categories

Stores ==
    UNION {{[i \in 1..n |-> Row(i, f[i][1], f[i][2], f[i][3], f[i][4])] :
              f \in [1..n -> RowFields]} : n \in 0..MaxRows}

ModelMonths == {"March", "December"}

InitAgg ==
    /\ store \in Stores
    /\ invoked = <<>>
    /\ http = <<>>
    /\ form = NoForm
    /\ res = EmptyDict
    /\ msg = NoMsg
    /\ overview = NoOverview
    /\ report = NoReport

ShowReport ==
    \E year \in Years, month \in ModelMonths :
        LET params == [month |-> month, year |-> year]
        IN  /\ invoked' = HeadCalls \o <<Call("ListTransactionsLambda", params)>>
            /\ Head1
            /\ report' = ReportOf(ListTransactions(store, params), month, year)
            /\ form' = NoForm
            /\ res' = EmptyDict
            /\ msg' = NoMsg
            /\ UNCHANGED store

NextAgg == RunScript \/ ShowReport

SpecAgg == InitAgg /\ [][NextAgg]_vars

----------------------------------------------------------------------------
(* invoke_lambda_http applied to any function name *)

FuncNames ==
    {"ListTransactionsLambda", "AddTransactionLambda", "UpdateTransactionLambda",
     "DeleteTransactionLambda", "CsvImportLambda", "GenerateReportLambda",
     "OtherLambda"}

Payloads == {EmptyDict, [transaction_id |-> "t1"]}

InitInvoke ==
    /\ store = <<>>
    /\ invoked = <<>>
    /\ http = <<>>
    /\ form = NoForm
    /\ res = EmptyDict
    /\ msg = NoMsg
    /\ overview = NoOverview
    /\ report = NoReport

Invoke ==
    \E func_name \in FuncNames, payload \in Payloads, r \in Replies :
        /\ Len(invoked) < MaxCalls
        /\ invoked' = Append(invoked, Call(func_name, payload))
        /\ http' = http \o send_request(func_name, payload)
        /\ res' = response_json(r)
        /\ UNCHANGED <<store, form, msg, overview, report>>

NextInvoke == Invoke

SpecInvoke == InitInvoke /\ [][NextInvoke]_vars

----------------------------------------------------------------------------
(* Properties *)

RECURSIVE TotalOver(_, _)
TotalOver(df, I) ==
    IF I = {} THEN 0
    ELSE LET i == CHOOSE x \in I : TRUE
         IN  df[i].Amount + TotalOver(df, I \ {i})

Rows(df) == 1..Len(df)
OfKind(df, k) == {i \in Rows(df) : df[i].Type = k}
ValidRows(df) ==
    \A i \in Rows(df) : df[i].Amount >= 0 /\ df[i].Type \in {"Income", "Expense"}

\* C1: for a valid collection, revenue + expenses equals the sum over all rows
\* and net is revenue minus expenses, in the Reports tab and in the Overview.
C1_Conservation ==
    /\ (report.status = "shown" /\ ValidRows(report.res)) =>
          LET s == report.summary[1]
          IN  /\ s.revenue = TotalOver(report.res, OfKind(report.res, "Income"))
              /\ s.expenses_total = TotalOver(report.res, OfKind(report.res, "Expense"))
              /\ s.revenue + s.expenses_total = TotalOver(report.res, Rows(report.res))
              /\ s.net = s.revenue - s.expenses_total
              /\ \A k \in DOMAIN s.byType :
                    s.byType[k] = IF k = "Income" THEN s.revenue ELSE s.expenses_total
    /\ (overview.status = "shown" /\ ValidRows(overview.rows)) =>
          LET o == overview.summary[1]
          IN  o.revenue + o.expenses = TotalOver(overview.rows, Rows(overview.rows))

C1_Witness ==
    /\ report.status = "shown"
    /\ ValidRows(report.res)
    /\ report.summary[1].revenue > 0
    /\ report.summary[1].expenses_total > 0
    /\ report.summary[1].net = 0

ClaimedLabel(c) == IF c \in {"", Null} THEN "Uncategorized" ELSE c

\* C2 as stated: the expense breakdown groups an empty or absent category
\* under the key "Uncategorized".
C2_Uncategorized ==
    report.status = "shown" =>
        \A i \in OfKind(report.res, "Expense") :
            LET k == ClaimedLabel(report.res[i].Category)
                e == report.summary[1].exp_data
            IN  /\ e # <<>>
                /\ k \in DOMAIN e[1]
                /\ e[1][k] = TotalOver(report.res,
                       {j \in OfKind(report.res, "Expense") :
                           ClaimedLabel(report.res[j].Category) = k})

\* C2 amended: the Reports breakdown maps each label carried by an Expense row
\* (the empty string included, as its own key) to the sum over the Expense rows
\* with exactly that label; Income rows are never counted, rows without a
\* category are left out, and no breakdown is drawn when there is no Expense
\* row.  The Overview's per-category totals group the rows of every kind.
C2_ExpenseByCategory ==
    /\ report.status = "shown" =>
          LET df == report.res
              exp == OfKind(df, "Expense")
              e == report.summary[1].exp_data
          IN  IF exp = {} THEN e = <<>>
              ELSE /\ Len(e) = 1
                   /\ DOMAIN e[1] = {df[i].Category : i \in exp} \ {Null}
                   /\ \A k \in DOMAIN e[1] :
                         e[1][k] = TotalOver(df, {i \in exp : df[i].Category = k})
    /\ overview.status = "shown" =>
          LET df == overview.rows
              c == overview.summary[1].byCategory
          IN  /\ DOMAIN c = {df[i].Category : i \in Rows(df)} \ {Null}
              /\ \A k \in DOMAIN c :
                    c[k] = TotalOver(df, {i \in Rows(df) : df[i].Category = k})

C2_Witness ==
    /\ report.status = "shown"
    /\ Len(report.res) = 2
    /\ report.res[1].Type = "Income" /\ report.res[1].Category = ""
    /\ report.res[2].Type = "Expense" /\ report.res[2].Category = ""
    /\ report.res[2].Amount = 1
    /\ report.summary[1].exp_data # <<>>
    /\ DOMAIN report.summary[1].exp_data[1] = {""}
    /\ report.summary[1].exp_data[1][""] = 1

InvalidRow(r) == r.Amount < 0 \/ r.Type \notin {"Income", "Expense"}

\* C3 as stated: a response holding a record with a negative amount or an
\* unknown kind makes the summarization fail with InvalidTransaction and
\* produce nothing.
C3_FailsOnInvalid ==
    (report.status # "idle" /\ \E i \in Rows(report.res) : InvalidRow(report.res[i])) =>
        /\ report.status = "InvalidTransaction"
        /\ report.summary = <<>>

\* C3 amended: the aggregation validates nothing and never fails: a non-empty
\* response is always summarized over all its rows; a negative amount is added
\* with its sign, and a row of another kind counts in the per-type and daily
\* totals but in neither revenue nor expenses.
C3_NoValidation ==
    (report.status # "idle" /\ report.res # <<>>) =>
        /\ report.status = "shown"
        /\ Len(report.summary) = 1
        /\ LET df == report.res
               s == report.summary[1]
           IN  /\ s.revenue = TotalOver(df, OfKind(df, "Income"))
               /\ s.expenses_total = TotalOver(df, OfKind(df, "Expense"))
               /\ DOMAIN s.byType = {df[i].Type : i \in Rows(df)}
               /\ \A k \in DOMAIN s.byType : s.byType[k] = TotalOver(df, OfKind(df, k))
               /\ TotalOver([n \in DOMAIN s.daily |-> [Amount |-> s.daily[n][2]]],
                            DOMAIN s.daily)
                    = TotalOver(df, Rows(df))

C3_Witness ==
    /\ report.status = "shown"
    /\ Len(report.res) = 2
    /\ report.res[1].Type = "Income" /\ report.res[1].Amount < 0
    /\ report.res[2].Type = "Transfer" /\ report.res[2].Amount > 0
    /\ report.summary[1].revenue < 0
    /\ report.summary[1].byType["Transfer"] > 0

\* C5: the daily series has exactly one pair per date that has a row, its
\* total is the sum over all rows of that date whatever their kind, and the
\* pairs are in strictly ascending date order.
C5_DailyTotals ==
    report.status = "shown" =>
        LET df == report.res
            daily == report.summary[1].daily
        IN  /\ {daily[n][1] : n \in DOMAIN daily} = {df[i].Date : i \in Rows(df)}
            /\ Len(daily) = Cardinality({df[i].Date : i \in Rows(df)})
            /\ \A n \in DOMAIN daily :
                  daily[n][2] = TotalOver(df, {i \in Rows(df) : df[i].Date = daily[n][1]})
            /\ \A n, m \in DOMAIN daily :
                  n < m => DatetimeLess(ToDatetime(daily[n][1]), ToDatetime(daily[m][1]))

C5_Witness ==
    /\ report.status = "shown"
    /\ Len(report.res) = 2
    /\ report.res[1].Date = DateStr(<<2025, 3, 10>>)
    /\ report.res[2].Date = DateStr(<<2025, 3, 5>>)
    /\ Len(report.summary[1].daily) = 2
    /\ report.summary[1].daily[1][1] = DateStr(<<2025, 3, 5>>)

\* C6 as stated: an empty collection is summarized to all-zero totals, an
\* empty category breakdown and an empty daily series.
C6_ZeroSummary ==
    (report.status # "idle" /\ report.res = <<>>) =>
        /\ Len(report.summary) = 1
        /\ report.summary[1].revenue = 0
        /\ report.summary[1].net = 0
        /\ report.summary[1].exp_data = <<>>
        /\ report.summary[1].daily = <<>>

\* C6 amended: an empty collection is not an error but is not summarized
\* either: the Reports tab shows the warning "No transactions for this period."
\* and the Overview "No transactions available.", with no totals, breakdown
\* or daily series.
C6_EmptyWarning ==
    /\ (report.status # "idle" /\ report.res = <<>>) =>
          /\ report.status = "warning"
          /\ report.text = "No transactions for this period."
          /\ report.summary = <<>>
    /\ (overview.status # "idle" /\ store = <<>>) =>
          /\ overview.status = "warning"
          /\ overview.text = "No transactions available."
          /\ overview.summary = <<>>

C6_Witness ==
    /\ store = <<>>
    /\ report.status = "warning"
    /\ overview.status = "warning"

InPeriod(r, month, year) ==
    /\ ToDatetime(r.Date)[1] = year
    /\ MonthNames[ToDatetime(r.Date)[2]] = month

\* C7: the rows summarized for a period are exactly the rows whose date falls
\* in that month and year, in the Reports tab (the selected period) and in the
\* Overview (the period its heading names); no match gives an empty result.
C7_PeriodFilter ==
    /\ report.status # "idle" =>
          /\ report.res = SelectSeq(store,
                LAMBDA r : InPeriod(r, report.heading.month, report.heading.year))
          /\ report.status \in {"shown", "warning"}
    /\ overview.status = "shown" =>
          overview.rows = SelectSeq(store,
                LAMBDA r : InPeriod(r, overview.heading[1].month,
                                    overview.heading[1].year))

UpdateCalls(calls) ==
    {i \in 1..Len(calls) : calls[i].func = "UpdateTransactionLambda"}

\* C4: every amount an Add or Update submission sends to the store is >= 0.
C4_AmountsNonNegative ==
    \A i \in 1..Len(invoked) :
        /\ invoked[i].func = "AddTransactionLambda" => invoked[i].payload.amount >= 0
        /\ (invoked[i].func = "UpdateTransactionLambda"
              /\ "Amount" \in DOMAIN invoked[i].payload.updates)
              => invoked[i].payload.updates["Amount"] >= 0

Submitted(f, field) ==
    CASE field = "Date" -> <<f.date[1], f.date[2] \div 10, f.date[2] % 10,
                             f.date[3] \div 10, f.date[3] % 10>>
      [] field = "Description" -> f.desc
      [] field = "Amount" -> f.amt
      [] field = "Type" -> f.ttype
      [] field = "Category" -> f.cat

\* C8: an Update submission for a listed ID sends exactly the fields whose
\* submitted value differs from the stored one; with no difference, or with
\* an ID that is not listed, it sends no update request.
C8_UpdatesExactlyChanged ==
    [][form'.tab = "update" =>
        LET sent == UpdateCalls(invoked')
            hits == {i \in 1..Len(store) : store[i].TransactionID = form'.txn_id}
        IN  IF hits = {} THEN sent = {}
            ELSE LET txn == store[CHOOSE i \in hits : TRUE]
                     diff == {f \in {"Date", "Description", "Amount", "Type", "Category"} :
                                 Submitted(form', f) # txn[f]}
                 IN  IF diff = {} THEN sent = {}
                     ELSE /\ Cardinality(sent) = 1
                          /\ \A i \in sent :
                                /\ invoked'[i].payload.transaction_id = form'.txn_id
                                /\ DOMAIN invoked'[i].payload.updates = diff
                                /\ \A f \in diff :
                                      invoked'[i].payload.updates[f] = Submitted(form', f)
     ]_vars

C8_Witness ==
    /\ form.tab = "update"
    /\ \E i \in UpdateCalls(invoked) :
          /\ DOMAIN invoked[i].payload.updates = {"Amount", "Category"}
          /\ invoked[i].payload.transaction_id = "t1"

ExpectedRoute(func_name) ==
    IF func_name = "ListTransactionsLambda" THEN <<"GET", "/transactions">>
    ELSE IF func_name = "AddTransactionLambda" THEN <<"POST", "/transactions">>
    ELSE IF func_name = "UpdateTransactionLambda" THEN <<"PUT", "/transactions">>
    ELSE IF func_name = "DeleteTransactionLambda" THEN <<"DELETE", "/transactions">>
    ELSE IF func_name = "CsvImportLambda" THEN <<"POST", "/csvimport">>
    ELSE IF func_name = "GenerateReportLambda" THEN <<"POST", "/report">>
    ELSE <<"POST", "/unknown">>

\* C9: every call sends exactly one request, whose method and route are fixed
\* by the function name (an unknown name goes to POST /unknown), and two
\* different known names never share method and route.
C9_Routes ==
    /\ Len(http) = Len(invoked)
    /\ \A i \in 1..Len(http) :
          /\ i <= Len(invoked)
          /\ <<http[i].verb, http[i].url[2]>> = ExpectedRoute(invoked[i].func)
          /\ http[i].url[1] = BASE_URL
    /\ \A i, j \in 1..Len(http) :
          (/\ i <= Len(invoked) /\ j <= Len(invoked)
           /\ invoked[i].func # invoked[j].func
           /\ invoked[i].func # "OtherLambda"
           /\ invoked[j].func # "OtherLambda")
          => <<http[i].verb, http[i].url>> # <<http[j].verb, http[j].url>>

C9_Witness ==
    /\ Len(http) = 2
    /\ invoked[1].func = "OtherLambda"
    /\ http[1].verb = "POST" /\ http[1].url[2] = "/unknown"
    /\ invoked[2].func = "UpdateTransactionLambda"
    /\ http[2].verb = "PUT"

\* C10: after a non-JSON (failed) response the Add, Update, Delete and CSV
\* import blocks do not display their success message.
C10_NoSuccessOnError ==
    "error" \in DOMAIN res =>
        /\ msg.text # <<"Transaction added.">>
        /\ msg.text # <<"Transaction updated.">>
        /\ msg.text # <<"Transaction ", form.txn_id, " deleted.">>
        /\ msg.text # <<"CSV imported.">>

====
